---- MODULE Spec2Model ----
(***************************************************************************)
(* Model of the vscode-logging Logger (src/src/Logger.ts): a singleton     *)
(* facade over a winston logger with three transports (output channel,     *)
(* <name>.log, error.log) and the VS Code notification calls made by       *)
(* error / warn / info.                                                    *)
(*                                                                         *)
(* Strings are TLA+ strings; a log line is the string the printf format of *)
(* Logger.ts:152-154 produces.  The Console transport of Logger.ts:177-187 *)
(* echoes every record to the standard output of the process when          *)
(* NODE_ENV is not "production"; the standard output is no state of the    *)
(* logger and nothing reads it back, so the model does not keep it.        *)
(*                                                                         *)
(* Logger.ts here is version 1.0.0.  Three behaviours of later versions    *)
(* that the tests of src/unnamed/part_002 exercise are not in it: the      *)
(* handler that logs a rejected notification promise (Reject), the raw     *)
(* mode of the output channel, ignoreFormatForOutputChannel (ChannelEntry) *)
(* and clear() (Clear).  They are modelled from the specification and from *)
(* what those tests expect.                                                *)
(***************************************************************************)
EXTENDS Naturals, Sequences, FiniteSets, TLC

(* ------------------------------ bounds --------------------------------- *)

\* how many times initializeLogger is called in a run
MaxLoggers == 2
\* how many records are written successfully in a run
MaxRecords == 2
\* how many uncaught failures happen in a run
MaxFailures == 1
\* how far the wall clock (seconds) advances
MaxClock == 1
\* how many times a single output channel is revealed
MaxShows == 1
\* how many times a single output channel is cleared
MaxClears == 2

(* ------------------------------ inputs --------------------------------- *)

\* names an extension may pass to initializeLogger
Names == {"App", "Ext"}

\* LoggingMessage.message
Messages == {"myMessage", "boom"}

\* LoggingMessage.notifyUser is optional: absent, true or false
NotifyValues == {"absent", "true", "false"}

\* LoggingMessage.error is `unknown`: absent, a non-object (or an object with
\* neither message nor stack), an object exposing only a stack, an object
\* exposing only a message, or an Error with a message and a stack.
\* message / stack are "" when not present.
NoError == [kind |-> "absent", isObject |-> FALSE, message |-> "", stack |-> ""]
OpaqueError == [kind |-> "opaque", isObject |-> FALSE, message |-> "", stack |-> ""]
TraceOnlyError == [kind |-> "trace", isObject |-> TRUE, message |-> "", stack |-> " at foo.js:1"]
MessageOnlyError == [kind |-> "message", isObject |-> TRUE, message |-> "no trace", stack |-> ""]
FullError == [kind |-> "Error", isObject |-> TRUE, message |-> "unit test", stack |-> " - my stack trace"]
ErrorValues == {NoError, OpaqueError, TraceOnlyError, MessageOnlyError, FullError}

\* LoggingMessageWithLevel.level
Levels == {"error", "warn", "info", "debug"}

\* every LoggingMessage a caller can pass
LoggingMessages == [message : Messages, notifyUser : NotifyValues, error : ErrorValues]

\* LoggingMessage.ignoreFormatForOutputChannel is optional: a message
\* without the field, or with the field true or false
ChannelFormatMessages ==
  {m \in LoggingMessages : m.notifyUser = "absent" /\ m.error \in {NoError, FullError}}
  \cup [message : Messages, notifyUser : {"absent"}, error : {NoError, FullError},
        ignoreFormatForOutputChannel : {"true", "false"}]

(* ------------------------------- state --------------------------------- *)

VARIABLES
  alive,          \* the extension host process is running
  clock,          \* wall clock, in seconds
  instance,       \* Logger.instance: 0 (undefined) or the id of a Logger
  loggers,        \* every Logger created so far: [name, ended, outputChannel]
  channels,       \* the output channel of each Logger: [name, lines, shows]
  subscriptions,  \* context.subscriptions
  logDir,         \* the folder context.logUri.fsPath: [exists, parent, other]
  generalLog,     \* contents of <name>.log, per name
  errorLog,       \* contents of error.log
  notifications,  \* every show*Message call: [kind, text, items, logger, state, result]
  dispatched,     \* how many records the winston loggers have taken so far
  failures,       \* how many uncaught failures have happened so far
  last            \* the log call or other operation that ran last, and its outcome

vars == <<alive, clock, instance, loggers, channels, subscriptions,
          logDir, generalLog, errorLog, notifications,
          dispatched, failures, last>>

\* Logger.instance before initializeLogger
NoInstance == 0

\* the message of the Error getLogger throws
NotCreatedMessage == "no instance of the logger was created"

\* the Error a winston logger raises when written to after end()
WriteAfterEndMessage == "write after end"

\* what is kept of a log call: the Logger it ran on, its level and the
\* message of the error it threw ("" if none)
Called(l, level, threw) ==
  [op |-> "log", logger |-> l, level |-> level, threw |-> threw, returned |-> NoInstance]

\* what is kept of any other operation or event: the message of the error it
\* threw ("" if none) and the Logger it returned (0 if none)
Ran(threw, returned) ==
  [op |-> "", logger |-> NoInstance, level |-> "", threw |-> threw, returned |-> returned]

\* what is kept of a call of end(): the message of the error it threw
RanEnd(threw) == [Ran(threw, NoInstance) EXCEPT !.op = "end"]

\* the log folder before the extension runs: missing together with its
\* parent folder, missing in an existing parent, existing and empty, or
\* existing with a file of somebody else in it (other is its content, ""
\* when there is no such file)
Folder(exists, parent, other) == [exists |-> exists, parent |-> parent, other |-> other]
Folders ==
  {Folder(FALSE, FALSE, ""), Folder(FALSE, TRUE, ""),
   Folder(TRUE, TRUE, ""), Folder(TRUE, TRUE, "notes of another tool")}

\* the folders the logging specifications start from: a first activation
\* (nothing there yet) and a later one (folder there), nobody else's file
UsualFolders == {f \in Folders : f.exists = f.parent /\ f.other = ""}

\* the state before initializeLogger, whatever the log folder is
InitLogger ==
  /\ alive = TRUE
  /\ clock = 0
  /\ instance = NoInstance
  /\ loggers = <<>>
  /\ channels = <<>>
  /\ subscriptions = <<>>
  /\ generalLog = [n \in Names |-> <<>>]
  /\ errorLog = <<>>
  /\ notifications = <<>>
  /\ dispatched = 0
  /\ failures = 0
  /\ last = Ran("", NoInstance)

Init == InitLogger /\ logDir \in UsualFolders

\* the same with every log folder
InitFolder == InitLogger /\ logDir \in Folders

(* --------------------------- lifecycle --------------------------------- *)

\* vscode.window.createOutputChannel(name): a fresh, empty, hidden channel
\* that was never cleared
CreateOutputChannel(name) == [name |-> name, lines |-> <<>>, shows |-> 0, clears |-> 0]

\* new Logger(logger, outputChannel) around a fresh winston logger writing
\* to <name>.log and error.log: the constructor binds the output channel
NewLogger(name, outputChannel) ==
  [name |-> name, ended |-> FALSE, outputChannel |-> outputChannel]

\* this.outputChannel of Logger l
ChannelOf(l) == loggers[l].outputChannel

\* fs.existsSync(path)
ExistsSync(folder) == folder.exists

\* fs.mkdirSync(path, {recursive}): with recursive the missing parents are
\* created and an existing folder is left alone; without it a missing parent
\* and an existing folder are errors
MkdirSync(folder, recursive) ==
  CASE folder.exists /\ recursive -> [threw |-> "", folder |-> folder]
    [] folder.exists /\ ~recursive -> [threw |-> "EEXIST", folder |-> folder]
    [] ~folder.exists /\ (folder.parent \/ recursive) ->
         [threw |-> "", folder |-> Folder(TRUE, TRUE, folder.other)]
    [] OTHER -> [threw |-> "ENOENT", folder |-> folder]

\* mkdirSync called without options
MkdirPlain == FALSE

\* the option {recursive: true} of the mkdirSync call
MkdirRecursive == TRUE

\* an initializeLogger that returns at once when a logger is installed
InitializeLoggerOnce(name) ==
  LET made == IF ~ExistsSync(logDir)
              THEN MkdirSync(logDir, MkdirRecursive)
              ELSE [threw |-> "", folder |-> logDir]
  IN /\ alive
     /\ Len(channels) < MaxLoggers
     /\ IF instance # NoInstance
        THEN /\ last' = Ran("", NoInstance)
             /\ UNCHANGED <<channels, subscriptions, logDir, loggers, instance>>
        ELSE /\ channels' = Append(channels, CreateOutputChannel(name))
             /\ subscriptions' = Append(subscriptions, Len(channels) + 1)
             /\ logDir' = made.folder
             /\ IF made.threw = ""
                THEN /\ loggers' = Append(loggers, NewLogger(name, Len(channels) + 1))
                     /\ instance' = Len(loggers) + 1
                ELSE UNCHANGED <<loggers, instance>>
             /\ last' = Ran(made.threw, NoInstance)
     /\ UNCHANGED <<alive, clock, generalLog, errorLog, notifications, dispatched, failures>>

\* static initializeLogger(context, name): the channel is created and
\* registered first, then the folder is made if it is missing; an error
\* thrown by mkdirSync leaves initializeLogger before the logger is created
InitializeLogger(name) ==
  LET made == IF ~ExistsSync(logDir)
              THEN MkdirSync(logDir, MkdirRecursive)
              ELSE [threw |-> "", folder |-> logDir]
  IN /\ alive
     /\ Len(channels) < MaxLoggers
     /\ channels' = Append(channels, CreateOutputChannel(name))
     /\ subscriptions' = Append(subscriptions, Len(channels) + 1)
     /\ logDir' = made.folder
     /\ IF made.threw = ""
        THEN /\ loggers' = Append(loggers, NewLogger(name, Len(channels) + 1))
             /\ instance' = Len(loggers) + 1
        ELSE UNCHANGED <<loggers, instance>>
     /\ last' = Ran(made.threw, NoInstance)
     /\ UNCHANGED <<alive, clock, generalLog, errorLog, notifications, dispatched, failures>>

\* getLogger with its test inverted: `if (this.instance)`
InstanceMissingInverted == instance # NoInstance

\* the test `!this.instance` of getLogger
InstanceMissing == instance = NoInstance

\* static getLogger()
GetLogger ==
  /\ alive
  /\ last' = IF InstanceMissing
             THEN Ran(NotCreatedMessage, NoInstance)
             ELSE Ran("", instance)
  /\ UNCHANGED <<alive, clock, instance, loggers, channels, subscriptions,
                 logDir, generalLog, errorLog, notifications, dispatched, failures>>

\* winston's logger.end(): the logger's stream is ended
EndLogger(lg) == [lg EXCEPT !.ended = TRUE]

\* end() without its test: this.instance.logger.end() whatever this.instance
\* is, a TypeError when it is undefined
EndUnguarded ==
  /\ alive
  /\ loggers' = IF instance # NoInstance
                THEN [loggers EXCEPT ![instance] = EndLogger(loggers[instance])]
                ELSE loggers
  /\ last' = RanEnd(IF instance # NoInstance
                   THEN ""
                   ELSE "Cannot read properties of undefined (reading 'logger')")
  /\ UNCHANGED <<alive, clock, instance, channels, subscriptions,
                 logDir, generalLog, errorLog, notifications, dispatched, failures>>

\* an end() that also gives up the singleton
EndClearingInstance ==
  /\ alive
  /\ loggers' = IF instance # NoInstance
                THEN [loggers EXCEPT ![instance] = EndLogger(loggers[instance])]
                ELSE loggers
  /\ instance' = NoInstance
  /\ last' = RanEnd("")
  /\ UNCHANGED <<alive, clock, channels, subscriptions,
                 logDir, generalLog, errorLog, notifications, dispatched, failures>>

\* static end(): `if (this.instance) this.instance.logger.end()`
End ==
  /\ alive
  /\ loggers' = IF instance # NoInstance
                THEN [loggers EXCEPT ![instance] = EndLogger(loggers[instance])]
                ELSE loggers
  /\ last' = RanEnd("")
  /\ UNCHANGED <<alive, clock, instance, channels, subscriptions,
                 logDir, generalLog, errorLog, notifications, dispatched, failures>>

(* ------------------------- winston pipeline ---------------------------- *)

\* winston's npm levels: a smaller number is a more severe level
LevelNum(level) ==
  CASE level = "error" -> 0
    [] level = "warn" -> 1
    [] level = "info" -> 2
    [] level = "debug" -> 5

\* createLogger({level: "debug"}): the level of a transport that sets none
LoggerLevel == "debug"

\* the output channel transport taking every level
ChannelTransportLevelDebug == "debug"

\* the output channel transport taking warnings and errors only
ChannelTransportLevelWarn == "warn"

\* the level of the VSCodeOutputChannelTransport
ChannelTransportLevel == "info"

\* the <name>.log File transport given the level of the channel transport
GeneralFileLevelInfo == "info"

\* the level of the <name>.log File transport: none given, so the logger's
GeneralFileLevel == LoggerLevel

\* the error.log File transport taking warnings too
ErrorFileLevelWarn == "warn"

\* the level of the error.log File transport
ErrorFileLevel == "error"

\* the output channel transport and the <name>.log File transport set
\* neither handleExceptions nor handleRejections
ChannelHandlesExceptions == FALSE
GeneralFileHandlesExceptions == FALSE

\* an error.log File transport without handleExceptions and handleRejections
ErrorFileHandlesNothing == FALSE

\* the error.log File transport: handleExceptions: true, handleRejections: true
ErrorFileHandlesExceptions == TRUE

\* winston-transport: a transport takes a record at its level or a more severe
\* one, and a record of an uncaught failure only if it handles exceptions
Accepts(transportLevel, handlesExceptions, info) ==
  /\ ~(info.exception /\ ~handlesExceptions)
  /\ LevelNum(transportLevel) >= LevelNum(info.level)

\* logger.warn(message) / logger.info(message) / logger.debug(message):
\* a record with the message alone
PlainInfo(level, message) ==
  [level |-> level, message |-> message, stack |-> "", exception |-> FALSE]

\* logger.error(message, meta) keeping the stack of meta and dropping its message
MetaInfoWithoutMessage(level, message, meta) ==
  [level |-> level, message |-> message,
   stack |-> IF meta.isObject THEN meta.stack ELSE "", exception |-> FALSE]

\* logger.error(message, meta): winston appends meta.message to the message
\* and keeps meta.stack when meta is an object
MetaInfo(level, message, meta) ==
  [level |-> level,
   message |-> IF meta.isObject /\ meta.message # ""
               THEN message \o " " \o meta.message
               ELSE message,
   stack |-> IF meta.isObject THEN meta.stack ELSE "",
   exception |-> FALSE]

\* winston.format.timestamp({format: "YYYY-MM-DD HH:mm:ss"})
Timestamp(now) == "2024-01-01 00:00:0" \o ToString(now)

\* a printf format that puts the stack on a line of its own
PrintfStackOnNewLine(timestamp, info) ==
  timestamp \o " [" \o info.level \o "] " \o info.message
    \o (IF info.stack = "" THEN "" ELSE "\n" \o info.stack)

\* the printf format of the logger
Printf(timestamp, info) ==
  timestamp \o " [" \o info.level \o "] " \o info.message \o info.stack

\* the message asks for the raw text in the output channel
IgnoreFormat(m) ==
  /\ "ignoreFormatForOutputChannel" \in DOMAIN m
  /\ m.ignoreFormatForOutputChannel = "true"

\* the record with what the channel transport needs for the raw mode: the
\* flag and the message as the caller gave it
WithChannelFormat(info, m) ==
  info @@ [ignoreFormat |-> IgnoreFormat(m), raw |-> m.message]

\* the record was logged with ignoreFormatForOutputChannel
RawRequested(info) == "ignoreFormat" \in DOMAIN info /\ info.ignoreFormat

\* VSCodeOutputChannelTransport.log: appendLine(info[MESSAGE]), or the
\* message alone when the raw mode was requested
ChannelEntry(line, info) == IF RawRequested(info) THEN info.raw ELSE line

\* a <name>.log File transport that honours the raw mode of the channel
GeneralFileEntryAsChannel(line, info) == ChannelEntry(line, info)

\* the <name>.log File transport has no format of its own: it writes info[MESSAGE]
GeneralFileEntry(line, info) == line

\* the error.log File transport given a format of its own that drops the stack
ErrorFileEntryOwnFormat(line, info) ==
  "[" \o info.level \o "] " \o info.message

\* the error.log File transport has no format of its own: it writes info[MESSAGE]
ErrorFileEntry(line, info) == line

\* a transport that puts the record it takes in front of the earlier ones
TransportedInFront(seq, accepted, entry) ==
  IF accepted THEN <<entry>> \o seq ELSE seq

\* a transport that writes every record it takes twice
TransportedTwice(seq, accepted, entry) ==
  IF accepted THEN Append(Append(seq, entry), entry) ELSE seq

\* a sequence after a transport has (or has not) taken the record
Transported(seq, accepted, entry) == IF accepted THEN Append(seq, entry) ELSE seq

\* a write to the winston logger of Logger l at the current time: the record
\* is formatted once and piped to every transport
LoggerWrite(l, info) ==
  LET line == Printf(Timestamp(clock), info)
      name == loggers[l].name
  IN /\ dispatched' = dispatched + 1
     /\ channels' = [channels EXCEPT ![ChannelOf(l)].lines =
                       Transported(@, Accepts(ChannelTransportLevel, ChannelHandlesExceptions, info),
                                   ChannelEntry(line, info))]
     /\ generalLog' = [generalLog EXCEPT ![name] =
                         Transported(@, Accepts(GeneralFileLevel, GeneralFileHandlesExceptions, info),
                                     GeneralFileEntry(line, info))]
     /\ errorLog' = Transported(errorLog, Accepts(ErrorFileLevel, ErrorFileHandlesExceptions, info),
                                ErrorFileEntry(line, info))

\* a winston logger that drops writes after end() silently
WriteNeverFails(l) == FALSE

\* writing to a winston logger after end() raises "write after end"
WriteFails(l) == loggers[l].ended

(* --------------------------- notifications ----------------------------- *)

\* notifyUser tested as `!== false`: an absent flag notifies
TruthyUnlessFalse(flag) == flag # "false"

\* `if (loggingMessage.notifyUser)`
Truthy(flag) == flag = "true"

\* the error notification built from the logged text: the message, the error's
\* message and its stack
ShowErrorMessageWithTrace(l, m) ==
  [kind |-> "error",
   text |-> MetaInfo("error", m.message, m.error).message \o MetaInfo("error", m.message, m.error).stack,
   items |-> <<"Open output">>, logger |-> l, state |-> "pending", result |-> ""]

\* error() waiting for the user's answer, and acting on it, before it returns
ShowErrorMessageAwaited(l, m) ==
  [kind |-> "error", text |-> m.message, items |-> <<"Open output">>,
   logger |-> l, state |-> "resolved", result |-> ""]

\* vscode.window.showErrorMessage(loggingMessage.message, "Open output")
ShowErrorMessage(l, m) ==
  [kind |-> "error", text |-> m.message, items |-> <<"Open output">>,
   logger |-> l, state |-> "pending", result |-> ""]

\* the warning notification given the action of the error notification
ShowWarningMessageWithAction(l, m) ==
  [kind |-> "warning", text |-> m.message, items |-> <<"Open output">>,
   logger |-> l, state |-> "pending", result |-> ""]

\* vscode.window.showWarningMessage(loggingMessage.message)
ShowWarningMessage(l, m) ==
  [kind |-> "warning", text |-> m.message, items |-> <<>>,
   logger |-> l, state |-> "pending", result |-> ""]

\* info() waiting for the user's answer before it returns
ShowInformationMessageAwaited(l, m) ==
  [kind |-> "information", text |-> m.message, items |-> <<>>,
   logger |-> l, state |-> "resolved", result |-> ""]

\* vscode.window.showInformationMessage(loggingMessage.message)
ShowInformationMessage(l, m) ==
  [kind |-> "information", text |-> m.message, items |-> <<>>,
   logger |-> l, state |-> "pending", result |-> ""]

(* ----------------------------- log calls ------------------------------- *)

\* the call throws out of the winston write: nothing else of the method runs
Throws(l, level) ==
  /\ last' = Called(l, level, WriteAfterEndMessage)
  /\ UNCHANGED <<channels, generalLog, errorLog, notifications, dispatched>>

\* the run has room for one more record
HasRoom == dispatched < MaxRecords

\* error(loggingMessage) logging the message alone, as warn() and info() do
ErrorMethodWithoutMeta(l, m) ==
  IF WriteFails(l)
  THEN Throws(l, "error")
  ELSE /\ HasRoom
       /\ LoggerWrite(l, WithChannelFormat(PlainInfo("error", m.message), m))
       /\ notifications' = IF Truthy(m.notifyUser)
                           THEN Append(notifications, ShowErrorMessage(l, m))
                           ELSE notifications
       /\ last' = Called(l, "error", "")

\* error(loggingMessage)
ErrorMethod(l, m) ==
  IF WriteFails(l)
  THEN Throws(l, "error")
  ELSE /\ HasRoom
       /\ LoggerWrite(l, WithChannelFormat(MetaInfo("error", m.message, m.error), m))
       /\ notifications' = IF Truthy(m.notifyUser)
                           THEN Append(notifications, ShowErrorMessage(l, m))
                           ELSE notifications
       /\ last' = Called(l, "error", "")

\* warn(loggingMessage) handing the error value to winston, as error() does
WarnMethodWithMeta(l, m) ==
  IF WriteFails(l)
  THEN Throws(l, "warn")
  ELSE /\ HasRoom
       /\ LoggerWrite(l, WithChannelFormat(MetaInfo("warn", m.message, m.error), m))
       /\ notifications' = IF Truthy(m.notifyUser)
                           THEN Append(notifications, ShowWarningMessage(l, m))
                           ELSE notifications
       /\ last' = Called(l, "warn", "")

\* warn(loggingMessage)
WarnMethod(l, m) ==
  IF WriteFails(l)
  THEN Throws(l, "warn")
  ELSE /\ HasRoom
       /\ LoggerWrite(l, WithChannelFormat(PlainInfo("warn", m.message), m))
       /\ notifications' = IF Truthy(m.notifyUser)
                           THEN Append(notifications, ShowWarningMessage(l, m))
                           ELSE notifications
       /\ last' = Called(l, "warn", "")

\* info(loggingMessage) raising the notification before it writes the record
InfoMethodNotifyingFirst(l, m) ==
  IF WriteFails(l)
  THEN /\ notifications' = IF Truthy(m.notifyUser)
                           THEN Append(notifications, ShowInformationMessage(l, m))
                           ELSE notifications
       /\ last' = Called(l, "info", WriteAfterEndMessage)
       /\ UNCHANGED <<channels, generalLog, errorLog, dispatched>>
  ELSE /\ HasRoom
       /\ LoggerWrite(l, WithChannelFormat(PlainInfo("info", m.message), m))
       /\ notifications' = IF Truthy(m.notifyUser)
                           THEN Append(notifications, ShowInformationMessage(l, m))
                           ELSE notifications
       /\ last' = Called(l, "info", "")

\* info(loggingMessage)
InfoMethod(l, m) ==
  IF WriteFails(l)
  THEN Throws(l, "info")
  ELSE /\ HasRoom
       /\ LoggerWrite(l, WithChannelFormat(PlainInfo("info", m.message), m))
       /\ notifications' = IF Truthy(m.notifyUser)
                           THEN Append(notifications, ShowInformationMessage(l, m))
                           ELSE notifications
       /\ last' = Called(l, "info", "")

\* debug(loggingMessage)
DebugMethod(l, m) ==
  IF WriteFails(l)
  THEN Throws(l, "debug")
  ELSE /\ HasRoom
       /\ LoggerWrite(l, WithChannelFormat(PlainInfo("debug", m.message), m))
       /\ notifications' = notifications
       /\ last' = Called(l, "debug", "")

\* log(loggingMessage) with the cases of warn and info swapped
LogMethodSwapped(l, level, m) ==
  CASE level = "error" -> ErrorMethod(l, m)
    [] level = "warn" -> InfoMethod(l, m)
    [] level = "info" -> WarnMethod(l, m)
    [] level = "debug" -> DebugMethod(l, m)

\* log(loggingMessage): the switch on loggingMessage.level
LogMethod(l, level, m) ==
  CASE level = "error" -> ErrorMethod(l, m)
    [] level = "warn" -> WarnMethod(l, m)
    [] level = "info" -> InfoMethod(l, m)
    [] level = "debug" -> DebugMethod(l, m)

\* what no log call touches
CallFrame ==
  UNCHANGED <<alive, clock, instance, loggers, subscriptions, logDir, failures>>

\* a caller invokes error / warn / info / debug / log on a Logger it obtained
\* from getLogger()
CallError(l, m) == alive /\ ErrorMethod(l, m) /\ CallFrame
CallWarn(l, m) == alive /\ WarnMethod(l, m) /\ CallFrame
CallInfo(l, m) == alive /\ InfoMethod(l, m) /\ CallFrame
CallDebug(l, m) == alive /\ DebugMethod(l, m) /\ CallFrame
CallLog(l, level, m) == alive /\ LogMethod(l, level, m) /\ CallFrame

\* a showOutputChannel that does nothing once the logger is ended
ShowOutputChannelIfActive(l) ==
  /\ alive
  /\ channels[ChannelOf(l)].shows < MaxShows
  /\ channels' = IF loggers[l].ended
                 THEN channels
                 ELSE [channels EXCEPT ![ChannelOf(l)].shows = @ + 1]
  /\ last' = Ran("", NoInstance)
  /\ UNCHANGED <<alive, clock, instance, loggers, subscriptions, logDir,
                 generalLog, errorLog, notifications, dispatched, failures>>

\* showOutputChannel(preserveFocus): outputChannel.show
ShowOutputChannel(l) ==
  /\ alive
  /\ channels[ChannelOf(l)].shows < MaxShows
  /\ channels' = [channels EXCEPT ![ChannelOf(l)].shows = @ + 1]
  /\ last' = Ran("", NoInstance)
  /\ UNCHANGED <<alive, clock, instance, loggers, subscriptions, logDir,
                 generalLog, errorLog, notifications, dispatched, failures>>

\* OutputChannel.clear(): the channel loses its content
OutputChannelClear(ch) == [ch EXCEPT !.lines = <<>>, !.clears = @ + 1]

\* a clear() that truncates the log files with the channel
ClearWithFiles(l) ==
  /\ alive
  /\ channels[ChannelOf(l)].clears < MaxClears
  /\ channels' = [channels EXCEPT ![ChannelOf(l)] = OutputChannelClear(@)]
  /\ generalLog' = [generalLog EXCEPT ![loggers[l].name] = <<>>]
  /\ errorLog' = <<>>
  /\ last' = Ran("", NoInstance)
  /\ UNCHANGED <<alive, clock, instance, loggers, subscriptions, logDir,
                 notifications, dispatched, failures>>

\* clear(): outputChannel.clear
Clear(l) ==
  /\ alive
  /\ channels[ChannelOf(l)].clears < MaxClears
  /\ channels' = [channels EXCEPT ![ChannelOf(l)] = OutputChannelClear(@)]
  /\ last' = Ran("", NoInstance)
  /\ UNCHANGED <<alive, clock, instance, loggers, subscriptions, logDir,
                 generalLog, errorLog, notifications, dispatched, failures>>

(* ------------------------- asynchronous events ------------------------- *)

\* what the user can answer to a notification: one of its items, or "" when
\* the notification is dismissed (the promise resolves to undefined)
Answers(n) == {n.items[i] : i \in 1..Len(n.items)} \cup {""}

\* a callback that reveals the channel whatever the user answered
OpensOutputAlways(n, answer) == n.kind = "error"

\* the callback error() registered: `if (dialogResult === "Open output")`;
\* warn() and info() registered none
OpensOutput(n, answer) == n.kind = "error" /\ answer = "Open output"

\* the promise of notification i resolves with the user's answer; only
\* error() registered a callback on it
Respond(i, answer) ==
  LET n == notifications[i]
  IN /\ alive
     /\ n.state = "pending"
     /\ notifications' = [notifications EXCEPT ![i].state = "resolved",
                                               ![i].result = answer]
     /\ channels' = IF OpensOutput(n, answer)
                    THEN [channels EXCEPT ![ChannelOf(n.logger)].shows = @ + 1]
                    ELSE channels
     /\ last' = Ran("", NoInstance)
     /\ UNCHANGED <<alive, clock, instance, loggers, subscriptions, logDir,
                    generalLog, errorLog, dispatched, failures>>

\* the record winston's exception handler writes for an uncaught failure:
\* level error, the failure's text and stack as the message, the stack as
\* meta, and the mark that only transports handling exceptions take it
ExceptionInfo ==
  [level |-> "error", message |-> "uncaughtException: oops\n at bar.js:2",
   stack |-> " at bar.js:2", exception |-> TRUE]

\* the loggers whose handler runs before the first handler that throws:
\* handlers run in the order the loggers were created, and the handler of an
\* ended logger throws out of its write
HandlersRun == {l \in 1..Len(loggers) : \A k \in 1..l : ~loggers[k].ended}

\* error.log after each of the loggers 1..k that handle the failure wrote to it
RECURSIVE ErrorLogAfter(_)
ErrorLogAfter(k) ==
  IF k = 0 THEN errorLog
  ELSE LET before == ErrorLogAfter(k - 1)
       IN IF k \in HandlersRun
          THEN Transported(before,
                           Accepts(ErrorFileLevel, ErrorFileHandlesExceptions, ExceptionInfo),
                           ErrorFileEntry(Printf(Timestamp(clock), ExceptionInfo), ExceptionInfo))
          ELSE before

\* the <name>.log files after each of the loggers 1..k that handle the
\* failure piped its record to its <name>.log transport
RECURSIVE GeneralLogAfter(_)
GeneralLogAfter(k) ==
  IF k = 0 THEN generalLog
  ELSE LET before == GeneralLogAfter(k - 1)
       IN IF k \in HandlersRun
          THEN [before EXCEPT ![loggers[k].name] =
                  Transported(@, Accepts(GeneralFileLevel, GeneralFileHandlesExceptions, ExceptionInfo),
                              GeneralFileEntry(Printf(Timestamp(clock), ExceptionInfo), ExceptionInfo))]
          ELSE before

\* the channels after each logger that handles the failure piped its record
\* to its channel transport
ChannelsAfter ==
  [c \in 1..Len(channels) |->
     IF \E l \in HandlersRun : ChannelOf(l) = c
     THEN [channels[c] EXCEPT !.lines =
             Transported(@, Accepts(ChannelTransportLevel, ChannelHandlesExceptions, ExceptionInfo),
                         ChannelEntry(Printf(Timestamp(clock), ExceptionInfo), ExceptionInfo))]
     ELSE channels[c]]

\* winston's handlers run for a failure: every logger that handles it logs
\* the record of the failure, which goes to the transports that take it.
\* When the handler of an ended logger throws, the handlers after it do
\* not run and the process may end.
HandleFailure ==
  /\ failures' = failures + 1
  /\ errorLog' = ErrorLogAfter(Len(loggers))
  /\ generalLog' = GeneralLogAfter(Len(loggers))
  /\ channels' = ChannelsAfter
  /\ alive' \in IF HandlersRun = 1..Len(loggers) THEN {TRUE} ELSE BOOLEAN

\* an uncaught exception or unhandled rejection somewhere in the process:
\* every logger's error.log transport handles it (handleExceptions,
\* handleRejections)
UncaughtFailure ==
  /\ alive
  /\ Len(loggers) > 0
  /\ failures < MaxFailures
  /\ HandleFailure
  /\ last' = Ran("", NoInstance)
  /\ UNCHANGED <<clock, instance, loggers, subscriptions, logDir,
                 notifications, dispatched>>

\* the Error a failing notification call rejects its promise with
ShowFailure ==
  [kind |-> "Error", isObject |-> TRUE, message |-> "foo", stack |-> "Error: foo"]

\* the word for the failed notification in the re-logged message
FailedWord(kind) ==
  CASE kind = "error" -> "error"
    [] kind = "warning" -> "warning"
    [] kind = "information" -> "info"

\* the message of the record that is logged for a failed notification
ShowFailedMessage(kind) == "Error showing the " \o FailedWord(kind) \o " message"

\* the promise of notification i rejects: the rejection is caught and logged
\* as an error record, with the cause as its error value and without
\* notifyUser.  On an ended logger that write throws inside the handler,
\* which makes an unhandled rejection of it.
Reject(i) ==
  LET n == notifications[i]
  IN /\ alive
     /\ n.state = "pending"
     /\ notifications' = [notifications EXCEPT ![i].state = "rejected"]
     /\ IF WriteFails(n.logger)
        THEN /\ HandleFailure
             /\ UNCHANGED dispatched
        ELSE /\ LoggerWrite(n.logger, MetaInfo("error", ShowFailedMessage(n.kind), ShowFailure))
             /\ UNCHANGED <<alive, failures>>
     /\ last' = Ran("", NoInstance)
     /\ UNCHANGED <<clock, instance, loggers, subscriptions, logDir>>

\* time passes
Tick ==
  /\ alive
  /\ clock < MaxClock
  /\ clock' = clock + 1
  /\ last' = Ran("", NoInstance)
  /\ UNCHANGED <<alive, instance, loggers, channels, subscriptions,
                 logDir, generalLog, errorLog, notifications, dispatched, failures>>

(* -------------------------- specifications ---------------------------- *)

\* the log calls a caller can make with a message of msgs
Calls(msgs) ==
  \/ \E l \in 1..Len(loggers), m \in msgs : CallError(l, m)
  \/ \E l \in 1..Len(loggers), m \in msgs : CallWarn(l, m)
  \/ \E l \in 1..Len(loggers), m \in msgs : CallInfo(l, m)
  \/ \E l \in 1..Len(loggers), m \in msgs : CallDebug(l, m)
  \/ \E l \in 1..Len(loggers), level \in Levels, m \in msgs : CallLog(l, level, m)

\* the user answers a pending notification
Answer ==
  \E i \in 1..Len(notifications) :
    \E answer \in Answers(notifications[i]) : Respond(i, answer)

\* showing a pending notification fails
Failure == \E i \in 1..Len(notifications) : Reject(i)

\* the whole program: every operation, every event, every message
Next ==
  \/ \E name \in Names : InitializeLogger(name)
  \/ GetLogger
  \/ End
  \/ Calls(LoggingMessages)
  \/ \E l \in 1..Len(loggers) : ShowOutputChannel(l)
  \/ \E l \in 1..Len(loggers) : Clear(l)
  \/ Answer
  \/ Failure
  \/ UncaughtFailure
  \/ Tick

Spec == Init /\ [][Next]_vars

\* the logger used as documented: initializeLogger is called once, then
\* records of every level and with every message are logged while time
\* passes, until end()
NextRecords ==
  \/ \E name \in Names : Len(loggers) = 0 /\ InitializeLogger(name)
  \/ End
  \/ Calls(LoggingMessages)
  \/ Tick

SpecRecords == Init /\ [][NextRecords]_vars

\* the messages the lifecycle specification logs: one text, with and
\* without an Error, with and without notifyUser
LifecycleMessages ==
  {m \in LoggingMessages : /\ m.message = "myMessage"
                           /\ m.notifyUser \in {"absent", "true"}
                           /\ m.error \in {NoError, FullError}}

\* the lifecycle of the singleton: initializeLogger may be called again,
\* getLogger and end at any time, and uncaught failures happen
NextLifecycle ==
  \/ \E name \in Names : InitializeLogger(name)
  \/ GetLogger
  \/ End
  \/ Calls(LifecycleMessages)
  \/ UncaughtFailure

SpecLifecycle == Init /\ [][NextLifecycle]_vars

\* the messages the notification specification logs: with and without
\* notifyUser, with and without an Error
NotifiedMessages ==
  {m \in LoggingMessages : /\ m.notifyUser \in {"absent", "true"}
                           /\ m.error \in {NoError, FullError}}

\* the notifications of one logger: records are logged, the user answers
\* the notifications at any later time or showing them fails, the channel
\* is revealed, until end()
NextNotify ==
  \/ \E name \in Names : Len(loggers) = 0 /\ InitializeLogger(name)
  \/ End
  \/ Calls(NotifiedMessages)
  \/ \E l \in 1..Len(loggers) : ShowOutputChannel(l)
  \/ Answer
  \/ Failure

SpecNotify == Init /\ [][NextNotify]_vars

\* the notifications of one logger when showing a notification always
\* fails: no notification is ever answered
NextNotifyFails ==
  \/ \E name \in Names : Len(loggers) = 0 /\ InitializeLogger(name)
  \/ Calls(NotifiedMessages)
  \/ Failure

SpecNotifyFails == Init /\ [][NextNotifyFails]_vars

\* the formats of the channel: one logger, records with and without
\* ignoreFormatForOutputChannel, while time passes
NextChannel ==
  \/ \E name \in Names : Len(loggers) = 0 /\ InitializeLogger(name)
  \/ Calls(ChannelFormatMessages)
  \/ Tick

SpecChannel == Init /\ [][NextChannel]_vars

\* clearing the channel of one logger: records are logged and the channel
\* is cleared at any time, before and after end()
NextClear ==
  \/ \E name \in Names : Len(loggers) = 0 /\ InitializeLogger(name)
  \/ End
  \/ Calls(LifecycleMessages)
  \/ \E l \in 1..Len(loggers) : Clear(l)

SpecClear == Init /\ [][NextClear]_vars

\* the log folder: initializeLogger is called, once or again, whatever the
\* folder was before, and the loggers are used and ended
NextFolder ==
  \/ \E name \in Names : InitializeLogger(name)
  \/ GetLogger
  \/ End
  \/ Calls(LifecycleMessages)

SpecFolder == InitFolder /\ [][NextFolder]_vars

(* ------------------------------ claims --------------------------------- *)

\* a call of the method of the given level, directly or through log()
CallOf(l, level, m) ==
  \/ CallLog(l, level, m)
  \/ level = "error" /\ CallError(l, m)
  \/ level = "warn" /\ CallWarn(l, m)
  \/ level = "info" /\ CallInfo(l, m)
  \/ level = "debug" /\ CallDebug(l, m)

\* the step is a log call of the given level that returned normally
Returned(level) == last'.level = level /\ last'.threw = ""

\* the step is the call of level on Logger l with message m, and it returned
Dispatches(l, level, m) == last' = Called(l, level, "") /\ CallOf(l, level, m)

\* the general file of the Logger the step's call ran on
FileOfCall == loggers[last'.logger].name

\* seq grew by exactly one entry in the step
GrewByOne(before, after) ==
  /\ Len(after) = Len(before) + 1
  /\ SubSeq(after, 1, Len(before)) = before

\* the last entry of a non-empty sequence
Last(seq) == seq[Len(seq)]

\* how many lines the general files of the given names hold
RECURSIVE TotalLines(_)
TotalLines(names) ==
  IF names = {} THEN 0
  ELSE LET n == CHOOSE x \in names : TRUE
       IN Len(generalLog[n]) + TotalLines(names \ {n})

\* the timestamps a run can print
Stamps == {Timestamp(t) : t \in 0..MaxClock}

\* C1: a debug record, dispatched through debug() or log({level: "debug"}),
\* whatever its notifyUser and error, adds nothing to the output channel,
\* nothing to error.log and raises no notification; it adds its line
\* "<timestamp> [debug] <message>" to <name>.log.
C1_DebugOnlyInGeneralFile ==
  [][Returned("debug") =>
       /\ channels' = channels
       /\ errorLog' = errorLog
       /\ notifications' = notifications
       /\ \A m \in LoggingMessages :
            Dispatches(last'.logger, "debug", m) =>
              generalLog' = [generalLog EXCEPT ![FileOfCall] =
                               Append(@, Timestamp(clock) \o " [debug] " \o m.message)]]_vars

\* C1 witness: a debug call returned; its record is in <name>.log while the
\* channel, error.log and the notifications are empty
C1_Witness ==
  /\ last.level = "debug"
  /\ last.threw = ""
  /\ \E n \in Names, t \in Stamps, x \in Messages :
       generalLog[n] = <<t \o " [debug] " \o x>>
  /\ \A l \in 1..Len(channels) : channels[l].lines = <<>>
  /\ errorLog = <<>>
  /\ notifications = <<>>

\* every Logger created so far has been ended
AllEnded == Len(loggers) > 0 /\ \A l \in 1..Len(loggers) : loggers[l].ended

\* the lines of every channel, in the order the channels were created
ChannelLines(chs) == [l \in 1..Len(chs) |-> chs[l].lines]

\* C2: end() ends the installed logger for good; every later debug / info /
\* warn / error / log call on it throws "write after end" to its caller and
\* appends nothing to <name>.log, error.log or the channel; and while every
\* logger is ended no step appends to a file or a channel.
C2_NoLoggingAfterEnd ==
  /\ [][End /\ instance # NoInstance => loggers'[instance].ended]_vars
  /\ [][\A l \in 1..Len(loggers) : loggers[l].ended => loggers'[l].ended]_vars
  /\ [][last'.level # "" /\ loggers[last'.logger].ended =>
          /\ last'.threw = WriteAfterEndMessage
          /\ UNCHANGED <<generalLog, errorLog, channels>>]_vars
  /\ [][AllEnded =>
          /\ UNCHANGED <<generalLog, errorLog>>
          /\ SubSeq(ChannelLines(channels'), 1, Len(channels)) = ChannelLines(channels)]_vars

\* C2 witness: a call on the ended logger has thrown, after a record was
\* logged while that logger was active
C2_Witness ==
  /\ last.threw = WriteAfterEndMessage
  /\ last.logger = instance
  /\ loggers[instance].ended
  /\ Len(generalLog[loggers[instance].name]) > 0

\* C3: getLogger() throws "no instance of the logger was created" and
\* returns nothing as long as initializeLogger was never called; once it was
\* called, getLogger() throws nothing and returns the instance installed last.
C3_GetLoggerNeedsInitialize ==
  [][GetLogger =>
       IF Len(loggers) = 0
       THEN last'.threw = NotCreatedMessage /\ last'.returned = NoInstance
       ELSE last'.threw = "" /\ last'.returned = Len(loggers)]_vars

\* C3 witness: getLogger() has thrown in a state where no logger exists
C3_Witness ==
  /\ last.threw = NotCreatedMessage
  /\ last.returned = NoInstance
  /\ Len(loggers) = 0

\* C4: every record of any level that is dispatched successfully appends
\* exactly one line to the general file of its logger and changes no other
\* general file; so the general files hold as many lines as records were
\* dispatched.
C4_OneGeneralLinePerRecord ==
  /\ [](TotalLines(Names) = dispatched)
  /\ [][\A level \in Levels :
          Returned(level) =>
            /\ dispatched' = dispatched + 1
            /\ GrewByOne(generalLog[FileOfCall], generalLog'[FileOfCall])
            /\ \A n \in Names \ {FileOfCall} : generalLog'[n] = generalLog[n]]_vars

\* C4 witness: two calls returned, the second a debug call, and the general
\* file holds two lines
C4_Witness ==
  /\ dispatched = 2
  /\ last.level = "debug"
  /\ last.threw = ""
  /\ \E n \in Names : Len(generalLog[n]) = 2

\* C5: every successfully dispatched info, warn or error record appends
\* exactly one entry to the output channel of its logger, besides its one
\* line in the general file.
C5_OneChannelEntryPerRecord ==
  [][\A level \in Levels \ {"debug"} :
       Returned(level) =>
         /\ GrewByOne(channels[last'.logger].lines, channels'[last'.logger].lines)
         /\ GrewByOne(generalLog[FileOfCall], generalLog'[FileOfCall])
         /\ \A k \in 1..Len(channels) : k # last'.logger => channels'[k] = channels[k]]_vars

\* C5 witness: an info record and then a warn record are in the channel
C5_Witness ==
  /\ last.level = "warn"
  /\ last.threw = ""
  /\ \E t \in Stamps, u \in Stamps, x \in Messages, y \in Messages :
       channels[last.logger].lines = <<t \o " [info] " \o x, u \o " [warn] " \o y>>

\* C6: every successfully dispatched error record appends exactly one line
\* to error.log, and that line is the very line appended to <name>.log.
C6_ErrorLineDuplicated ==
  [][Returned("error") =>
       /\ GrewByOne(errorLog, errorLog')
       /\ GrewByOne(generalLog[FileOfCall], generalLog'[FileOfCall])
       /\ Last(errorLog') = Last(generalLog'[FileOfCall])]_vars

\* C6 witness: an error call with an Error value returned after the clock
\* advanced; error.log and the general file end with the same line, which
\* carries the error's message and stack
C6_Witness ==
  /\ last.level = "error"
  /\ last.threw = ""
  /\ \E n \in Names, x \in Messages :
       /\ Len(generalLog[n]) > 0
       /\ Last(generalLog[n]) = Last(errorLog)
       /\ Last(errorLog) = Timestamp(1) \o " [error] " \o x \o " "
                             \o FullError.message \o FullError.stack

\* the lines an error record can produce: the message alone, followed by a
\* stack, by the error's message, or by the error's message and its stack
ErrorLines ==
  {t \o " [error] " \o x \o e : t \in Stamps, x \in Messages,
     e \in {"", TraceOnlyError.stack, " " \o MessageOnlyError.message,
            " " \o FullError.message \o FullError.stack}}

\* the lines the record of an uncaught failure can produce
FailureLines ==
  {t \o " [error] " \o ExceptionInfo.message \o ExceptionInfo.stack : t \in Stamps}

\* C7: error.log holds nothing but the lines of error records and of
\* uncaught failures: an info, warn or debug call never changes it, and it
\* changes only in an error call that returns or in an uncaught failure.
C7_ErrorLogOnlyErrors ==
  /\ [](\A i \in 1..Len(errorLog) : errorLog[i] \in ErrorLines \cup FailureLines)
  /\ [][last'.level \in {"info", "warn", "debug"} => errorLog' = errorLog]_vars
  /\ [][errorLog' # errorLog => Returned("error") \/ failures' = failures + 1]_vars

\* C7 witness: a warn call returned and left error.log with the line of an
\* error record and the line of an uncaught failure
C7_Witness ==
  /\ last.level = "warn"
  /\ last.threw = ""
  /\ Len(errorLog) = 2
  /\ \E i \in 1..2 : errorLog[i] \in FailureLines
  /\ \E i \in 1..2 : errorLog[i] \in ErrorLines

\* the kind of notification each level raises
KindOf(level) ==
  CASE level = "error" -> "error"
    [] level = "warn" -> "warning"
    [] level = "info" -> "information"
    [] level = "debug" -> "none"

\* C8: a call that returns raises a notification if and only if its
\* notifyUser is true and its level is info, warn or error; it then raises
\* exactly one, of the kind of its level (information, warning, error).
\* With notifyUser absent or false, and at level debug, it raises none.
C8_NotifyIffRequested ==
  [][\A level \in Levels :
       Returned(level) =>
         \A m \in LoggingMessages :
           ~ (IF m.notifyUser = "true" /\ level # "debug"
              THEN /\ GrewByOne(notifications, notifications')
                   /\ Last(notifications').kind = KindOf(level)
              ELSE notifications' = notifications)
           => ~ CallOf(last'.logger, level, m)]_vars

\* C8 witness: an info call without notifyUser, then a warn call with it:
\* the only notification is a warning
C8_Witness ==
  /\ last.level = "warn"
  /\ last.threw = ""
  /\ dispatched = 2
  /\ \E t \in Stamps, u \in Stamps, x \in Messages, y \in Messages :
       channels[last.logger].lines = <<t \o " [info] " \o x, u \o " [warn] " \o y>>
  /\ Len(notifications) = 1
  /\ notifications[1].kind = "warning"

\* C9: the text of a notification is exactly the message of the call that
\* raised it: no timestamp, no level, and for an error call with an Error
\* value neither the error's message nor its stack.
C9_NotificationTextIsMessage ==
  /\ [](\A i \in 1..Len(notifications) : notifications[i].text \in Messages)
  /\ [][\A level \in Levels :
          Returned(level) /\ Len(notifications') > Len(notifications) =>
            \A m \in LoggingMessages :
              Last(notifications').text # m.message => ~ CallOf(last'.logger, level, m)]_vars

\* C9 witness: an error call with an Error value and notifyUser returned; the
\* files hold the message, the error's message and the stack, the
\* notification holds the message
C9_Witness ==
  /\ last.level = "error"
  /\ last.threw = ""
  /\ Len(notifications) > 0
  /\ Len(errorLog) > 0
  /\ \E t \in Stamps :
       Last(errorLog) = t \o " [error] " \o Last(notifications).text \o " "
                          \o FullError.message \o FullError.stack

\* C10: an error notification offers exactly the one action "Open output";
\* information and warning notifications offer no action.
C10_OnlyErrorOffersAction ==
  \A i \in 1..Len(notifications) :
    notifications[i].items =
      IF notifications[i].kind = "error" THEN <<"Open output">> ELSE <<>>

\* C10 witness: a warning and an error notification have been raised
C10_Witness ==
  /\ \E i \in 1..Len(notifications) : notifications[i].kind = "warning"
  /\ \E i \in 1..Len(notifications) : notifications[i].kind = "error"

\* how often each channel has been revealed
Shows(chs) == [l \in 1..Len(chs) |-> chs[l].shows]

\* notification i is answered in the step
Answered(i) ==
  notifications[i].state = "pending" /\ notifications'[i].state = "resolved"

\* C11: when an error notification is answered with "Open output" the
\* channel of its logger is revealed exactly once in that step and no other
\* channel is; when it is answered otherwise or dismissed, and when an
\* information or warning notification is answered, no channel is revealed;
\* an answered notification is never answered again.
C11_RevealOnOpenOutputOnly ==
  /\ [][\A i \in 1..Len(notifications) :
          Answered(i) =>
            LET n == notifications'[i]
            IN Shows(channels') =
                 IF n.kind = "error" /\ n.result = "Open output"
                 THEN [Shows(channels) EXCEPT ![n.logger] = @ + 1]
                 ELSE Shows(channels)]_vars
  /\ [][\A i \in 1..Len(notifications) :
          notifications[i].state # "pending" => notifications'[i] = notifications[i]]_vars

\* C11 witness: one error notification was answered with "Open output" and
\* another was dismissed; the channel has been revealed once
C11_Witness ==
  /\ Len(notifications) = 2
  /\ notifications[1].kind = "error"
  /\ notifications[1].state = "resolved"
  /\ notifications[1].result = "Open output"
  /\ notifications[2].kind = "error"
  /\ notifications[2].state = "resolved"
  /\ notifications[2].result = ""
  /\ channels[1].shows = 1

\* the level whose method raises a notification of the given kind
LevelOf(kind) ==
  CASE kind = "error" -> "error"
    [] kind = "warning" -> "warn"
    [] kind = "information" -> "info"

\* the lines the record of notification n can have produced
LinesOf(n) ==
  {t \o " [" \o LevelOf(n.kind) \o "] " \o n.text \o e :
     t \in Stamps, e \in {"", " " \o FullError.message \o FullError.stack}}

\* C12: a call with notifyUser returns while its notification is pending:
\* in the step of the call the notification is raised unanswered, the line
\* of the record is appended to <name>.log, to the channel and (for an error
\* record) to error.log, and no earlier notification changes; so while a
\* notification is pending its record is already in the file and the channel.
C12_ReturnsBeforeAnswer ==
  /\ [][\A level \in {"info", "warn", "error"} :
          Returned(level) /\ Len(notifications') > Len(notifications) =>
            /\ Last(notifications').state = "pending"
            /\ SubSeq(notifications', 1, Len(notifications)) = notifications
            /\ GrewByOne(generalLog[FileOfCall], generalLog'[FileOfCall])
            /\ GrewByOne(channels[last'.logger].lines, channels'[last'.logger].lines)
            /\ Last(generalLog'[FileOfCall]) \in LinesOf(Last(notifications'))
            /\ Last(channels'[last'.logger].lines) = Last(generalLog'[FileOfCall])
            /\ level = "error" =>
                 /\ GrewByOne(errorLog, errorLog')
                 /\ Last(errorLog') = Last(generalLog'[FileOfCall])]_vars
  /\ [](\A i \in 1..Len(notifications) :
          LET n == notifications[i]
          IN /\ \E j \in 1..Len(generalLog[loggers[n.logger].name]) :
                  generalLog[loggers[n.logger].name][j] \in LinesOf(n)
             /\ \E j \in 1..Len(channels[n.logger].lines) :
                  channels[n.logger].lines[j] \in LinesOf(n))

\* C12 witness: an info call and then an error call returned, both
\* notifications are still unanswered, and both records are in the file and
\* in the channel
C12_Witness ==
  /\ last.level = "error"
  /\ last.threw = ""
  /\ Len(notifications) = 2
  /\ notifications[1].kind = "information"
  /\ notifications[1].state = "pending"
  /\ notifications[2].kind = "error"
  /\ notifications[2].state = "pending"
  /\ Len(generalLog[loggers[1].name]) = 2
  /\ Len(channels[1].lines) = 2
  /\ Len(errorLog) = 1

\* showing notification i fails in the step
Rejected(i) ==
  notifications[i].state = "pending" /\ notifications'[i].state = "rejected"

\* the line logged at the current time for a failed notification n, when the
\* failed notification is named by the given word
FailureRecord(word) ==
  Timestamp(clock) \o " [error] Error showing the " \o word \o " message "
    \o ShowFailure.message \o ShowFailure.stack

\* the word naming the notification of each level: info, warning, error
WordOf(level) ==
  CASE level = "error" -> "error"
    [] level = "warn" -> "warning"
    [] level = "info" -> "info"

\* what a failed notification n does on a logger that is still active, when
\* the re-logged message names the notification by the given word
Relogged(n, word) ==
  LET file == loggers[n.logger].name
  IN /\ generalLog' = [generalLog EXCEPT ![file] = Append(@, FailureRecord(word))]
     /\ errorLog' = Append(errorLog, FailureRecord(word))
     /\ channels' = [channels EXCEPT ![n.logger].lines = Append(@, FailureRecord(word))]
     /\ \E j \in 1..Len(generalLog[file]) : generalLog[file][j] \in LinesOf(n)
     /\ alive'
     /\ last'.threw = ""

FailureRecords ==
  {t \o " [error] Error showing the " \o word \o " message "
     \o ShowFailure.message \o ShowFailure.stack :
     t \in Stamps, word \in {"info", "warning", "error"}}

\* how many entries of seq are records of failed notifications
Relogs(seq) == Cardinality({j \in 1..Len(seq) : seq[j] \in FailureRecords})

\* the notifications that failed
Failed == {i \in 1..Len(notifications) : notifications[i].state = "rejected"}

FormattedLines(level, m) ==
  {Timestamp(clock) \o " [" \o level \o "] " \o m.message \o e :
     e \in {"", " " \o FullError.message \o FullError.stack}}

\* what C15 says of a returned call of the given level with message m
RawInChannelOnly(level, m) ==
  /\ Last(generalLog'[FileOfCall]) \in FormattedLines(level, m)
  /\ level = "error" => Last(errorLog') = Last(generalLog'[FileOfCall])
  /\ GrewByOne(channels[last'.logger].lines, channels'[last'.logger].lines)
  /\ Last(channels'[last'.logger].lines) =
       IF /\ "ignoreFormatForOutputChannel" \in DOMAIN m
          /\ m.ignoreFormatForOutputChannel = "true"
       THEN m.message
       ELSE Last(generalLog'[FileOfCall])

TraceOf(error) == IF error.isObject THEN error.stack ELSE ""

\* the own message of an error value after a space, "" when it has none
OwnMessageOf(error) ==
  IF error.isObject /\ error.message # "" THEN " " \o error.message ELSE ""

\* the general file of the call's logger ends with the given line
FileEndsWith(line) == Last(generalLog'[FileOfCall]) = line

Errors == {e \in ErrorValues : e.isObject /\ e.message # "" /\ e.stack # ""}

\* the three sinks of the call's logger end with the given line
SinksEndWith(line) ==
  /\ Last(generalLog'[FileOfCall]) = line
  /\ Last(errorLog') = line
  /\ Last(channels'[last'.logger].lines) = line

\* C17: an error call with message M and an Error with message E and stack
\* S writes "<timestamp> [error] M E<S>" to <name>.log, to error.log and to
\* the channel: the message of the Error stands between M and the stack.
C17_ErrorMessageBeforeStack ==
  [][Returned("error") =>
       \A m \in LoggingMessages :
         m.error \in Errors /\ CallOf(last'.logger, "error", m) =>
           SinksEndWith(Timestamp(clock) \o " [error] " \o m.message \o " "
                          \o m.error.message \o m.error.stack)]_vars

\* C17 witness: error({message: "myMessage", error}) with the Error of the
\* tests returned: the three sinks hold the line the tests expect
C17_Witness ==
  /\ last.level = "error"
  /\ last.threw = ""
  /\ generalLog[loggers[1].name] =
       <<Timestamp(0) \o " [error] myMessage unit test - my stack trace">>
  /\ errorLog = generalLog[loggers[1].name]
  /\ channels[1].lines = generalLog[loggers[1].name]

\* message m without its error value
WithoutError(m) == [m EXCEPT !.error = NoError]

\* C18: a debug, info or warn call whose message carries an error value
\* does exactly what the same call without the error value does: the line
\* it writes to <name>.log (and to the channel) is "<timestamp> [level]
\* <message>", with no message and no trace of the error value, and
\* error.log is unchanged.
C18_ErrorValueOnlyAtError ==
  [][\A level \in {"debug", "info", "warn"} :
       Returned(level) =>
         \A m \in LoggingMessages :
           m.error # NoError /\ CallOf(last'.logger, level, m) =>
             /\ CallOf(last'.logger, level, WithoutError(m))
             /\ FileEndsWith(Timestamp(clock) \o " [" \o level \o "] " \o m.message)
             /\ level # "debug" =>
                  Last(channels'[last'.logger].lines) = Last(generalLog'[FileOfCall])
             /\ errorLog' = errorLog]_vars

\* C18 witness: an info call and a warn call returned; the file and the
\* channel hold the two messages alone and error.log is empty
C18_Witness ==
  /\ last.level = "warn"
  /\ last.threw = ""
  /\ generalLog[loggers[1].name] =
       <<Timestamp(0) \o " [info] myMessage", Timestamp(0) \o " [warn] myMessage">>
  /\ channels[1].lines = generalLog[loggers[1].name]
  /\ errorLog = <<>>

\* before is the beginning of after
IsPrefix(before, after) ==
  /\ Len(before) <= Len(after)
  /\ SubSeq(after, 1, Len(before)) = before

\* the lines a debug record can produce
DebugLines == {t \o " [debug] " \o x : t \in Stamps, x \in Messages}

\* the line is not the line of a debug record
ForChannel(line) == line \notin DebugLines

\* the line is the line of an error record
ForErrorLog(line) == line \in ErrorLines

\* C19: no sink reorders: every step leaves what a sink held as the
\* beginning of what it holds, and a returning call puts its entry at the
\* end of every sink that takes it; so the channel holds the lines of the
\* info, warn and error records and error.log the lines of the error
\* records in the order in which <name>.log holds them, which is the order
\* of the calls.
C19_SinksKeepCallOrder ==
  /\ [][/\ \A n \in Names : IsPrefix(generalLog[n], generalLog'[n])
        /\ IsPrefix(errorLog, errorLog')
        /\ \A l \in 1..Len(channels) : IsPrefix(channels[l].lines, channels'[l].lines)]_vars
  /\ [][\A level \in Levels :
          Returned(level) =>
            /\ GrewByOne(generalLog[FileOfCall], generalLog'[FileOfCall])
            /\ level # "debug" =>
                 /\ GrewByOne(channels[last'.logger].lines, channels'[last'.logger].lines)
                 /\ Last(channels'[last'.logger].lines) = Last(generalLog'[FileOfCall])
            /\ level = "error" =>
                 /\ GrewByOne(errorLog, errorLog')
                 /\ Last(errorLog') = Last(generalLog'[FileOfCall])]_vars
  /\ [](\A l \in 1..Len(loggers) :
          /\ channels[l].lines = SelectSeq(generalLog[loggers[l].name], ForChannel)
          /\ errorLog = SelectSeq(generalLog[loggers[l].name], ForErrorLog))

\* C19 witness: error "myMessage" was logged, the clock advanced, and error
\* "boom" was logged: the three sinks hold the two lines in that order
C19_Witness ==
  /\ last.level = "error"
  /\ last.threw = ""
  /\ generalLog[loggers[1].name] =
       <<Timestamp(0) \o " [error] myMessage", Timestamp(1) \o " [error] boom">>
  /\ errorLog = generalLog[loggers[1].name]
  /\ channels[1].lines = generalLog[loggers[1].name]

\* a call of the method named by the level, not through log()
CallWrapper(l, level, m) ==
  \/ level = "error" /\ CallError(l, m)
  \/ level = "warn" /\ CallWarn(l, m)
  \/ level = "info" /\ CallInfo(l, m)
  \/ level = "debug" /\ CallDebug(l, m)

\* the messages compared in a step: every message when the call returned; a
\* call that throws out of the winston write has not read its message, and
\* one message stands for all
Compared ==
  IF last'.threw = ""
  THEN LoggingMessages
  ELSE {[message |-> "myMessage", notifyUser |-> "true", error |-> FullError]}

\* C20: log({level: L, ...}) does what L({...}) does with the same message,
\* notifyUser and error: in every state, each step of the one is a step of
\* the other, so they write the same lines to the files and the channel and
\* raise the same notifications, and on an ended logger both throw.
C20_LogIsWrapper ==
  [][\A level \in Levels :
       last'.level = level =>
         \A m \in Compared :
           CallLog(last'.logger, level, m) <=> CallWrapper(last'.logger, level, m)]_vars

\* C20 witness: a warn call with notifyUser, made directly or through
\* log(), returned: one warn line in the file and the channel, one warning
C20_Witness ==
  /\ last.level = "warn"
  /\ last.threw = ""
  /\ generalLog[loggers[1].name] = <<Timestamp(0) \o " [warn] boom">>
  /\ channels[1].lines = generalLog[loggers[1].name]
  /\ errorLog = <<>>
  /\ Len(notifications) = 1
  /\ notifications[1].kind = "warning"
  /\ notifications[1].text = "boom"

\* C21: clear() invokes the clear operation of the logger's channel exactly
\* once, after which the channel has no content, and leaves <name>.log and
\* error.log (and everything else of the channel) as they were.
C21_ClearOnlyChannel ==
  /\ [][\A l \in 1..Len(channels) :
          Clear(l) => channels'[l].clears = channels[l].clears + 1]_vars
  /\ [][\A l \in 1..Len(channels) :
          channels'[l].clears # channels[l].clears =>
            /\ channels'[l].clears = channels[l].clears + 1
            /\ channels'[l].lines = <<>>
            /\ channels'[l].shows = channels[l].shows
            /\ channels'[l].name = channels[l].name
            /\ UNCHANGED <<generalLog, errorLog>>]_vars

\* C21 witness: the channel was cleared once after an error record reached
\* it; the record is still in <name>.log and in error.log
C21_Witness ==
  /\ Len(channels) = 1
  /\ channels[1].clears = 1
  /\ channels[1].lines = <<>>
  /\ Len(errorLog) = 1
  /\ generalLog[channels[1].name] = errorLog

\* how often channel c is registered in context.subscriptions
Registered(subs, c) == Cardinality({i \in 1..Len(subs) : subs[i] = c})

\* C22: initializeLogger(context, name) does not fail and leaves the log
\* folder existing, whether it was missing (with or without its parent) or
\* was there; a folder that was there is left as it was and the foreign file
\* in it keeps its content; the channel is created with the given name, and
\* it is in context.subscriptions exactly once, after the earlier entries.
C22_InitializeMakesFolder ==
  [][\A name \in Names :
       InitializeLogger(name) =>
         /\ last'.threw = ""
         /\ logDir'.exists
         /\ logDir'.other = logDir.other
         /\ logDir.exists => logDir' = logDir
         /\ Len(channels') = Len(channels) + 1
         /\ SubSeq(channels', 1, Len(channels)) = channels
         /\ Last(channels').name = name
         /\ SubSeq(subscriptions', 1, Len(subscriptions)) = subscriptions
         /\ Registered(subscriptions', Len(channels')) = 1
         /\ Len(subscriptions') = Len(subscriptions) + 1]_vars

\* C22 witness: initializeLogger ran twice, the second time on the folder
\* the first had found or made; the folder holds the foreign file and both
\* channels are registered
C22_Witness ==
  /\ Len(loggers) = 2
  /\ logDir = Folder(TRUE, TRUE, "notes of another tool")
  /\ subscriptions = <<1, 2>>
  /\ channels[1].name = "App"
  /\ channels[2].name = "Ext"

\* C23: end() called when initializeLogger was never called does not throw,
\* creates no instance and changes neither channels, subscriptions, files
\* nor notifications; as long as there is no instance, getLogger() throws
\* "no instance of the logger was created", so it does after such an end().
C23_EndBeforeInitialize ==
  /\ [][last'.op = "end" /\ Len(channels) = 0 =>
          /\ last'.threw = ""
          /\ instance' = NoInstance
          /\ loggers' = <<>>
          /\ UNCHANGED <<alive, channels, subscriptions, logDir,
                         generalLog, errorLog, notifications>>]_vars
  /\ [][GetLogger /\ last.op = "end" /\ Len(channels) = 0 =>
          last'.threw = NotCreatedMessage /\ last'.returned = NoInstance]_vars

\* C23 witness: end() has returned and initializeLogger was never called
C23_Witness ==
  /\ last = RanEnd("")
  /\ Len(channels) = 0
  /\ instance = NoInstance

\* the lines error.log gained in the step
NewErrorLines == {errorLog'[i] : i \in Len(errorLog) + 1 .. Len(errorLog')}

\* C24: an uncaught exception or unhandled rejection that happens while the
\* installed logger is active, and no logger created before it has been
\* ended, is recorded in error.log: the step is no log call, error.log keeps
\* its lines and gains at least one, each the line of the failure; and no
\* uncaught failure adds anything to a <name>.log file or to a channel.
C24_FailuresInErrorLogOnly ==
  /\ [][failures' = failures + 1 /\ instance \in HandlersRun =>
          /\ last'.level = ""
          /\ Len(errorLog') > Len(errorLog)
          /\ SubSeq(errorLog', 1, Len(errorLog)) = errorLog
          /\ NewErrorLines \subseteq FailureLines]_vars
  /\ [][failures' = failures + 1 => generalLog' = generalLog /\ channels' = channels]_vars

\* C24 witness: after an info record was logged an uncaught failure
\* happened; error.log holds its line and nothing else, the channel and
\* <name>.log hold the info record alone
C24_Witness ==
  /\ failures = 1
  /\ Len(loggers) = 1
  /\ ~loggers[1].ended
  /\ Len(errorLog) = 1
  /\ errorLog[1] \in FailureLines
  /\ Len(channels[1].lines) = 1
  /\ generalLog[loggers[1].name] = channels[1].lines

\* C25: the ended state is terminal and the singleton survives it: once
\* end() has ended the installed logger, that logger stays the installed
\* instance (getLogger() keeps returning it and never throws), it stays
\* ended, and no operation afterwards lets a log call through the
\* singleton succeed again.
C25_EndedIsTerminal ==
  /\ [][instance # NoInstance /\ loggers[instance].ended => instance' = instance]_vars
  /\ [][\A l \in 1..Len(loggers) : loggers[l].ended => loggers'[l].ended]_vars
  /\ [][GetLogger /\ instance # NoInstance /\ loggers[instance].ended =>
          last'.threw = "" /\ last'.returned = instance]_vars
  /\ [][last'.level # "" /\ last'.logger = instance /\ last'.threw = "" =>
          \A l \in 1..Len(loggers) : ~loggers[l].ended]_vars

\* C26: what the singleton refers to is fixed by initializeLogger: no step
\* other than an initializeLogger call (no log, debug, info, warn or error
\* call, no showOutputChannel, no end, no answer to or failure of a
\* notification) changes which Logger is installed, which output channel a
\* Logger holds, or which winston logger and <name>.log file it writes to.
C26_BindingsFixed ==
  [][Len(channels') = Len(channels) =>
       /\ instance' = instance
       /\ Len(loggers') = Len(loggers)
       /\ \A l \in 1..Len(loggers) :
            /\ loggers'[l].outputChannel = loggers[l].outputChannel
            /\ loggers'[l].name = loggers[l].name
       /\ \A c \in 1..Len(channels) : channels'[c].name = channels[c].name]_vars

\* C26 witness: after an error notification was answered "Open output" and
\* end() was called, a log call on the ended logger has thrown; the
\* singleton is still the Logger created first, bound to its channel
C26_Witness ==
  /\ instance = 1
  /\ loggers[1].ended
  /\ loggers[1].outputChannel = 1
  /\ channels[1].name = loggers[1].name
  /\ channels[1].shows = 1
  /\ \E i \in 1..Len(notifications) : notifications[i].result = "Open output"
  /\ last = Called(1, "info", WriteAfterEndMessage)

\* notification i is an error notification waiting for its answer
PendingError(i) ==
  notifications[i].kind = "error" /\ notifications[i].state = "pending"

\* the follow-up of error notification i reveals the channel in the step
Reveals(i) ==
  PendingError(i) /\ Answered(i) /\ notifications'[i].result = "Open output"

\* the line a call of the given level with message m appends now
EntryOf(level, m) ==
  Timestamp(clock) \o " [" \o level \o "] " \o m.message
    \o (IF level = "error" /\ m.error.isObject
        THEN (IF m.error.message = "" THEN "" ELSE " " \o m.error.message) \o m.error.stack
        ELSE "")

\* the step appends entry to seq if takes, and leaves seq alone otherwise
Appends(before, after, takes, entry) ==
  after = IF takes THEN Append(before, entry) ELSE before

\* C27: the follow-up of an error notification is not ordered relative to
\* later log calls.  An error call with notifyUser returns with its
\* notification unanswered; while it is unanswered and the logger takes
\* records, both the "Open output" answer and a further log call can happen
\* next; the reveal changes no file, no channel line and nothing a log call
\* reads, and a log call answers no notification, reveals nothing and
\* appends entries that depend on the time, the level and the message
\* alone, so they are the same before and after the reveal.
C27_RevealUnordered ==
  /\ [][Returned("error") /\ Len(notifications') > Len(notifications) =>
          Last(notifications').kind = "error" /\ Last(notifications').state = "pending"]_vars
  /\ [](\A i \in 1..Len(notifications) :
          PendingError(i) /\ ~WriteFails(notifications[i].logger) /\ HasRoom =>
            /\ ENABLED Respond(i, "Open output")
            /\ \A m \in NotifiedMessages : ENABLED CallInfo(notifications[i].logger, m))
  /\ [][\A i \in 1..Len(notifications) :
          Reveals(i) =>
            /\ UNCHANGED <<clock, loggers, instance, generalLog, errorLog, dispatched>>
            /\ ChannelLines(channels') = ChannelLines(channels)]_vars
  /\ [][\A level \in Levels :
          Returned(level) =>
            /\ Shows(channels') = Shows(channels)
            /\ SubSeq(notifications', 1, Len(notifications)) = notifications
            /\ \A m \in NotifiedMessages :
                 ~ (/\ Appends(generalLog[FileOfCall], generalLog'[FileOfCall],
                               TRUE, EntryOf(level, m))
                    /\ Appends(channels[last'.logger].lines, channels'[last'.logger].lines,
                               level # "debug", EntryOf(level, m))
                    /\ Appends(errorLog, errorLog', level = "error", EntryOf(level, m)))
                 => ~ CallOf(last'.logger, level, m)]_vars

\* C27 witness: an error call with notifyUser returned, its notification was
\* answered "Open output" and the channel revealed, and then an info call
\* returned: the reveal came before the later call's entries
C27_Witness ==
  /\ last = Called(1, "info", "")
  /\ dispatched = 2
  /\ Len(notifications) = 1
  /\ notifications[1].kind = "error"
  /\ notifications[1].result = "Open output"
  /\ channels[1].shows = 1
  /\ Len(channels[1].lines) = 2
  /\ Len(errorLog) = 1

\* the other order: the info call returned while the error notification
\* was unanswered, and the answer "Open output" came last
C27_RevealAfterCall ==
  /\ last = Ran("", NoInstance)
  /\ dispatched = 2
  /\ Len(notifications) = 1
  /\ notifications[1].kind = "error"
  /\ notifications[1].result = "Open output"
  /\ channels[1].shows = 1
  /\ Len(channels[1].lines) = 2
  /\ Len(errorLog) = 1
  /\ ~loggers[1].ended

\* C28: initializeLogger checks no lifecycle state.  It can be called
\* while a logger is installed, active or ended; it then does not throw,
\* creates a new, empty channel and a new, active logger bound to it,
\* installs that logger in place of the earlier one and leaves every earlier
\* logger as it was (an active one is not ended); getLogger() returns the
\* logger installed last, and every log call on a logger that was not ended
\* returns.
C28_InitializeReplaces ==
  /\ [](alive /\ Len(channels) < MaxLoggers =>
          \A name \in Names : ENABLED InitializeLogger(name))
  /\ [][\A name \in Names :
          InitializeLogger(name) /\ instance # NoInstance =>
            /\ last'.threw = ""
            /\ channels' = Append(channels, [name |-> name, lines |-> <<>>,
                                             shows |-> 0, clears |-> 0])
            /\ Len(loggers') = Len(loggers) + 1
            /\ SubSeq(loggers', 1, Len(loggers)) = loggers
            /\ ~Last(loggers').ended
            /\ Last(loggers').outputChannel = Len(channels')
            /\ Last(loggers').name = name
            /\ instance' = Len(loggers')
            /\ instance' # instance]_vars
  /\ [][GetLogger /\ instance # NoInstance =>
          last'.threw = "" /\ last'.returned = Len(loggers)]_vars
  /\ [][last'.level # "" /\ ~loggers[last'.logger].ended => last'.threw = ""]_vars

\* C28 witness: initializeLogger, end, initializeLogger again: the first
\* logger is ended, the second is installed and active, and an info call on
\* it has returned and left its record in the new channel
C28_Witness ==
  /\ Len(loggers) = 2
  /\ loggers[1].ended
  /\ ~loggers[2].ended
  /\ instance = 2
  /\ last = Called(2, "info", "")
  /\ channels[1].lines = <<>>
  /\ Len(channels[2].lines) = 1

\* the replaced logger stays usable: after a second initializeLogger an info
\* call on the first, never ended logger has returned
C28_ReplacedStillActive ==
  /\ Len(loggers) = 2
  /\ ~loggers[1].ended
  /\ instance = 2
  /\ last = Called(1, "info", "")
  /\ Len(channels[1].lines) = 1

\* C29: a log call on an ended logger raises no notification, whatever its
\* level and its notifyUser: it throws "write after end" and the
\* notifications are as before; every notification is raised by a call that
\* returned, on a logger that was not ended; so once every logger is ended
\* no notification is raised any more.
C29_NoNotificationAfterEnd ==
  /\ [][last'.level # "" /\ loggers[last'.logger].ended =>
          /\ last'.threw = WriteAfterEndMessage
          /\ notifications' = notifications]_vars
  /\ [][Len(notifications') > Len(notifications) =>
          /\ last'.level \in {"info", "warn", "error"}
          /\ last'.threw = ""
          /\ Last(notifications').logger = last'.logger
          /\ ~loggers[last'.logger].ended]_vars
  /\ [][AllEnded => Len(notifications') = Len(notifications)]_vars

\* C29 witness: a warn call with notifyUser raised a notification, end() was
\* called, and an info call on the ended logger has thrown: there is still
\* the one notification
C29_Witness ==
  /\ last = Called(1, "info", WriteAfterEndMessage)
  /\ loggers[1].ended
  /\ Len(notifications) = 1
  /\ notifications[1].kind = "warning"
  /\ notifications[1].state = "pending"

\* the reveal counts of the channels that exist before the step
ShowsKept == SubSeq(Shows(channels'), 1, Len(channels)) = Shows(channels)

\* C30: a channel is revealed only by a showOutputChannel call or by the
\* answer "Open output" to an error notification: every other answer, every
\* debug / info / warn / error / log call and end() leave the reveal counts
\* alone.  showOutputChannel checks no lifecycle state: it can be called on
\* an ended logger and reveals its channel, and the answer "Open output"
\* given after end() reveals the channel of the ended logger.
C30_RevealOnlyOnRequest ==
  /\ [][~ShowsKept =>
          \/ \E i \in 1..Len(notifications) : Reveals(i)
          \/ \E l \in 1..Len(loggers) : ShowOutputChannel(l)]_vars
  /\ [][(\E i \in 1..Len(notifications) : Answered(i) /\ ~Reveals(i)) => ShowsKept]_vars
  /\ [][last'.level # "" \/ last'.op = "end" => ShowsKept]_vars
  /\ [](\A l \in 1..Len(loggers) :
          alive /\ channels[ChannelOf(l)].shows < MaxShows => ENABLED ShowOutputChannel(l))
  /\ [][\A l \in 1..Len(loggers) :
          ShowOutputChannel(l) =>
            channels'[ChannelOf(l)].shows = channels[ChannelOf(l)].shows + 1]_vars
  /\ [](\A i \in 1..Len(notifications) :
          alive /\ PendingError(i) => ENABLED Respond(i, "Open output"))
  /\ [][\A i \in 1..Len(notifications) :
          Reveals(i) =>
            LET c == ChannelOf(notifications[i].logger)
            IN channels'[c].shows = channels[c].shows + 1]_vars

\* C30 witness: the channel of the ended logger has been revealed twice,
\* once directly and once by the answer "Open output", and the reveal that
\* came last came after end()
C30_Witness ==
  /\ Len(loggers) = 1
  /\ loggers[1].ended
  /\ last = Ran("", NoInstance)
  /\ channels[1].shows = 2
  /\ Len(notifications) = 1
  /\ notifications[1].kind = "error"
  /\ notifications[1].result = "Open output"

====
